---- MODULE Spec2Model ----
(***************************************************************************)
(* A model of the KYC lookup tool (streamlit_app.py): the paginated        *)
(* provider fetch, the normalisation of provider inquiries and cases, the  *)
(* merge of legacy CSV rows with provider rows, the one-year expiration    *)
(* and the search views.                                                   *)
(*                                                                         *)
(* A Python string is a sequence of tokens: single characters where the    *)
(* code looks inside the string (lower(), strip(), startswith(), `in`,     *)
(* str.contains()), one token for a word the code only compares as a       *)
(* whole.  NaN/None is the one-token sequence <<"NaN">>, which no string   *)
(* of the data equals.  A timestamp is a day number; NaT is -1.            *)
(***************************************************************************)
EXTENDS Integers, Sequences, FiniteSets, TLC

VARIABLES
    pages,            \* the provider's chain of page responses (environment)
    params_after,     \* fetch_data: params['page[after]'], None before it is set
    results,          \* fetch_data: the local list `results`
    requests_made,    \* fetch_data: number of requests.get calls so far
    fetch_state,      \* fetch_data: "loop", "returned" or "raised"
    persons_df,       \* legacy.persons.csv
    inquiries_data,   \* st.session_state.inquiries_data (raw inquiry items)
    contributors_df,  \* grants.contributors.csv
    businesses_df,    \* legacy.businesses.csv
    cases_data,       \* st.session_state.cases_data (raw case items)
    all_persons_df,   \* main: all_persons_df
    all_contributors, \* main: all_contributors
    all_businesses,   \* main: all_businesses
    pc,               \* main: position in the script
    option,           \* sidebar selectbox
    search_term,      \* sidebar text input
    out,              \* what the run wrote to the page (st.write calls, in order)
    projects_df,      \* grants.projects.csv
    form_df,          \* legacy.form.csv
    csv_failed,       \* the CSV paths for which fetch_csv got a status other than 200
    session_state,    \* st.session_state: inquiries_data and cases_data
    cache_data,       \* st.cache_data of fetch_data: base_url -> time of the stored call
    clock,            \* seconds since the process started
    refresh_button,   \* st.button("Refresh") of the latest run
    network_calls,    \* the base_urls the latest run requested from the provider
    inquiries_df,     \* main: inquiries_df = process_inquiries(inquiries_data)
    cases_df,         \* main: cases_df = process_cases(cases_data)
    response_data,    \* typeform_to_dataframe: the 'items' of its argument
    form_entries      \* typeform_to_dataframe: the local list `form_entries`

fetchVars  == <<pages, params_after, results, requests_made, fetch_state>>
inputVars  == <<persons_df, inquiries_data, contributors_df, businesses_df, cases_data,
                projects_df, form_df, csv_failed>>
mergeVars  == <<all_persons_df, all_contributors, all_businesses>>
lookupVars == <<option, search_term, out>>
cacheVars  == <<session_state, cache_data, clock, refresh_button, network_calls>>
normVars   == <<inquiries_df, cases_df>>
formVars   == <<response_data, form_entries>>
vars == <<fetchVars, inputVars, mergeVars, pc, lookupVars, cacheVars, normVars, formVars>>

-----------------------------------------------------------------------------
(* Bounds of the model *)

MaxPages     == 3   \* pages in the provider's chain
MaxPageItems == 1   \* items in one page's data array
MaxRows      == 2   \* rows over all sources of one merge

-----------------------------------------------------------------------------
(* Python values *)

NaN  == <<"NaN">>
None == <<"NaN">>
NaT  == -1
Missing == <<"KeyError">>   \* a key that is not in the dict

\* An uncaught exception ends the run; the page shows it.
Raised(exception) == [kind |-> exception, rows |-> <<>>, status |-> <<>>]

\* The files main fetches with fetch_csv (lines 572-582).
ContributorsPath == "grants.contributors.csv"
ProjectsPath     == "grants.projects.csv"
PersonsPath      == "legacy.persons.csv"
BusinessesPath   == "legacy.businesses.csv"
FormPath         == "legacy.form.csv"
CsvPaths == {ContributorsPath, ProjectsPath, PersonsPath, BusinessesPath, FormPath}

notna(v) == v # NaN
isnull(v) == v = NaN

RECURSIVE Flatten(_)
Flatten(ss) == IF ss = <<>> THEN <<>> ELSE Head(ss) \o Flatten(Tail(ss))

SeqsUpTo(S, n) == UNION {[1..k -> S] : k \in 0..n}

-----------------------------------------------------------------------------
(* fetch_data: the paginated fetch *)

PageSizeParam == <<"page%5Bsize%5D=100">>
AfterMarker   == "page%5Bafter%5D="

\* The provider's opaque cursor of page k.
CursorTokens == <<"cur_1", "cur_2", "cur_3", "cur_4", "cur_5", "cur_6">>
CursorOf(k) == CursorTokens[k]

\* links.next as the provider writes it: the cursor of page k, before or
\* after the page-size parameter.
NextLink(k, shape) ==
    IF shape = "after_first"
    THEN <<"https://app.withpersona.com/api/v1/inquiries?", AfterMarker, CursorOf(k), "&">>
         \o PageSizeParam
    ELSE <<"https://app.withpersona.com/api/v1/inquiries?">> \o PageSizeParam
         \o <<"&", AfterMarker, CursorOf(k)>>

\* s.split(sep)[-1]: what follows the last occurrence of sep (all of s if none)
SplitLast(s, sep) ==
    IF \E i \in 1..Len(s) : s[i] = sep
    THEN LET i == CHOOSE j \in 1..Len(s) : s[j] = sep /\ \A m \in (j+1)..Len(s) : s[m] # sep
         IN SubSeq(s, i + 1, Len(s))
    ELSE s

\* s.split(sep)[0]: what precedes the first occurrence of sep (all of s if none)
SplitFirst(s, sep) ==
    IF \E i \in 1..Len(s) : s[i] = sep
    THEN LET i == CHOOSE j \in 1..Len(s) : s[j] = sep /\ \A m \in 1..(j-1) : s[m] # sep
         IN SubSeq(s, 1, i - 1)
    ELSE s

\* next_link.split('page%5Bafter%5D=')[-1].split('&')[0]
NextCursor(next_link) == SplitFirst(SplitLast(next_link, AfterMarker), "&")

\* The provider: no cursor gives the first page, the cursor of page k page k.
PageOf(after) ==
    IF after = None THEN 1
    ELSE CHOOSE k \in 1..Len(CursorTokens) : after = <<CursorOf(k)>>

\* The JSON body of page i of the chain; response.json() of an error body
\* that is JSON has neither 'data' nor 'links'.
ResponseData(i) ==
    LET p == pages[i] IN
    IF p.kind = "ok"
    THEN [has_data |-> TRUE, data |-> p.data,
          next |-> IF i < Len(pages) THEN NextLink(i + 1, p.shape) ELSE None]
    ELSE [has_data |-> FALSE, data |-> <<>>, next |-> None]

\* inquiry['attributes']['status'] not in ['created', 'open']
NotCreatedOrOpen(item) == item.status \notin {<<"created">>, <<"open">>}

\* One iteration of the while loop (lines 29-40), the return of line 42
\* included when the loop breaks.
FetchPage ==
    /\ fetch_state = "loop"
    /\ LET i == PageOf(params_after)
           p == pages[i]
       IN
       /\ requests_made' = requests_made + 1
       /\ IF p.kind \in {"transport_error", "status_text"}
          THEN \* requests.get raises, or response.json() raises on a body
               \* that is not JSON: the exception leaves fetch_data
               /\ fetch_state' = "raised"
               /\ results' = <<>>
               /\ UNCHANGED params_after
          ELSE LET rd == ResponseData(i)
                   extended == results \o rd.data
               IN
               IF rd.has_data /\ \E k \in 1..Len(rd.data) : rd.data[k].status = Missing
               THEN \* KeyError in the list comprehension of line 33
                    /\ fetch_state' = "raised"
                    /\ results' = <<>>
                    /\ UNCHANGED params_after
               ELSE /\ results' = IF rd.has_data
                                  THEN extended \o SelectSeq(rd.data, NotCreatedOrOpen)
                                  ELSE extended
                    /\ IF rd.next # None
                       THEN /\ params_after' = NextCursor(rd.next)
                            /\ fetch_state' = "loop"
                       ELSE /\ UNCHANGED params_after
                            /\ fetch_state' = "returned"
    /\ UNCHANGED <<pages, inputVars, cacheVars, normVars, formVars, mergeVars, pc, lookupVars>>

PageItemStatus == {<<"approved">>, <<"created">>, Missing}
PageItems(i) == {[id |-> <<i, k>>, status |-> s] : k \in 1..MaxPageItems, s \in PageItemStatus}

\* A page's data array lists distinct items, in id order.
PageData(i) ==
    {d \in SeqsUpTo(PageItems(i), MaxPageItems) :
        \A k \in 1..Len(d) : d[k].id = <<i, k>>}

PageResponses(i) ==
    {[kind |-> "ok", data |-> d, shape |-> sh] :
        d \in PageData(i), sh \in {"after_first", "after_last"}}
    \cup {[kind |-> k, data |-> <<>>, shape |-> "after_first"] :
        k \in {"transport_error", "status_json", "status_text"}}

Chains ==
    {c \in UNION {[1..n -> UNION {PageResponses(i) : i \in 1..MaxPages}] : n \in 1..MaxPages} :
        \A i \in 1..Len(c) : c[i] \in PageResponses(i)}

NoInputs ==
    /\ projects_df = <<>>
    /\ form_df = <<>>
    /\ csv_failed = {}
    /\ persons_df = <<>>
    /\ inquiries_data = <<>>
    /\ contributors_df = <<>>
    /\ businesses_df = <<>>
    /\ cases_data = <<>>

\* Every CSV fetch answered 200; the Grants Round files have no rows.
NoGrants ==
    /\ projects_df = <<>>
    /\ form_df = <<>>
    /\ csv_failed = {}

\* The base_url arguments of the four fetch_data calls of main.
InquiriesUrl        == "https://app.withpersona.com/api/v1/inquiries"
CasesUrl            == "https://app.withpersona.com/api/v1/cases"
InquiriesRefreshUrl == "https://app.withpersona.com/api/v1/inquiries?refresh=true"
CasesRefreshUrl     == "https://app.withpersona.com/api/v1/cases?refresh=true"
BaseUrls == {InquiriesUrl, CasesUrl, InquiriesRefreshUrl, CasesRefreshUrl}

\* A fresh process: nothing in st.session_state, nothing in st.cache_data.
NoCache ==
    /\ session_state = [inquiries_data |-> None, cases_data |-> None]
    /\ cache_data = <<>>
    /\ clock = 0
    /\ refresh_button = FALSE
    /\ network_calls = {}

NoNormalize ==
    /\ inquiries_df = <<>>
    /\ cases_df = <<>>

NoTypeform ==
    /\ response_data = <<>>
    /\ form_entries = <<>>

NoMerge ==
    /\ all_persons_df = <<>>
    /\ all_contributors = <<>>
    /\ all_businesses = <<>>

NoLookup ==
    /\ option = "Contribution Path"
    /\ search_term = <<>>
    /\ out = <<>>

InitFetch ==
    /\ pages \in Chains
    /\ params_after = None
    /\ results = <<>>
    /\ requests_made = 0
    /\ fetch_state = "loop"
    /\ NoInputs
    /\ NoMerge
    /\ pc = "fetch"
    /\ NoLookup
    /\ NoCache
    /\ NoNormalize
    /\ NoTypeform

NextFetch == FetchPage

SpecFetch == InitFetch /\ [][NextFetch]_vars

-----------------------------------------------------------------------------
(* str methods on token sequences *)

LowerTok(c) ==
    CASE c = "A" -> "a"
      [] c = "B" -> "b"
      [] c = "X" -> "x"
      [] OTHER -> c

\* s.lower()
lower(s) == [i \in 1..Len(s) |-> LowerTok(s[i])]

\* s.strip()
RECURSIVE lstrip(_)
lstrip(s) == IF s # <<>> /\ Head(s) = " " THEN lstrip(Tail(s)) ELSE s

RECURSIVE rstrip(_)
rstrip(s) ==
    IF s # <<>> /\ s[Len(s)] = " " THEN rstrip(SubSeq(s, 1, Len(s) - 1)) ELSE s

strip(s) == rstrip(lstrip(s))

\* s.startswith(prefix)
startswith(s, prefix) ==
    Len(s) >= Len(prefix) /\ SubSeq(s, 1, Len(prefix)) = prefix

\* sub in s
contains(s, sub) ==
    \E i \in 0..(Len(s) - Len(sub)) : SubSeq(s, i + 1, i + Len(sub)) = sub

\* d.get(key, '') or ''
GetOrEmpty(v) == IF v \in {Missing, None, <<>>} THEN <<>> ELSE v

-----------------------------------------------------------------------------
(* process_inquiries and process_cases: provider items to rows *)

\* l2_address of lines 57-62 and 100-105: the value when it is a string
\* that starts with 0x after lower().strip(), NaN otherwise.
NormalizeL2(value) ==
    LET l2_address == IF value = Missing THEN NaN ELSE value IN
    IF notna(l2_address) /\ startswith(strip(lower(l2_address)), <<"0", "x">>)
    THEN strip(lower(l2_address))
    ELSE NaN

InquiryStatus(status) ==
    IF status = <<"approved">> THEN <<"(green)", " ", "cleared">>
    ELSE IF status \in {<<"expired">>, <<"pending">>, <<"created">>}
         THEN <<"(moon)", " ", "retry">>
    ELSE IF status = <<"declined">> THEN <<"(stop)", " ", "rejected">>
    ELSE IF status = <<"needs_review">> THEN <<"(orange)", " ", "in review">>
    ELSE IF status = Missing THEN None
    ELSE status

\* One iteration of the loop of process_inquiries.
InquiryRecord(item) ==
    LET name_first  == GetOrEmpty(item.name_first)
        name_middle == GetOrEmpty(item.name_middle)
        name_last   == GetOrEmpty(item.name_last)
        name        == strip(name_first \o <<" ">> \o name_middle \o <<" ">> \o name_last)
        email       == strip(lower(GetOrEmpty(item.email_address)))
    IN [inquiry_id |-> item.id,
        name       |-> name,
        email      |-> IF ~contains(email, <<"@">>) THEN <<>> ELSE email,
        l2_address |-> NormalizeL2(item.l2_value),
        updated_at |-> item.updated_at,
        status     |-> InquiryStatus(item.status)]

process_inquiries(items) == [i \in 1..Len(items) |-> InquiryRecord(items[i])]

CaseStatus(status) ==
    LET s1 == IF status = <<"approved">> THEN <<"cleared">> ELSE status
        s2 == IF s1 = <<"approved">> THEN <<"(green)", " ", "cleared">> ELSE s1
        s3 == IF s2 \in {<<"expired">>, <<"pending">>, <<"created">>, <<"Waiting on UBOs">>}
              THEN <<"(blue)", " ", "incomplete">> ELSE s2
        s4 == IF s3 = <<"declined">> THEN <<"(stop)", " ", "rejected">> ELSE s3
        s5 == IF s4 = <<"Ready for Review">> THEN <<"(orange)", " ", "in review">> ELSE s4
    IN IF s5 = Missing THEN None ELSE s5

CaseRecord(item) ==
    LET business_name == IF item.business_name = Missing THEN <<>> ELSE item.business_name
        email == IF item.email = Missing THEN NaN ELSE item.email
    IN [case_id       |-> item.id,
        business_name |-> business_name,
        email         |-> IF notna(email) THEN strip(lower(email)) ELSE <<>>,
        l2_address    |-> NormalizeL2(item.l2_value),
        updated_at    |-> item.updated_at,
        status        |-> CaseStatus(item.status)]

\* if business_name: records.append(...)
HasBusinessName(item) == item.business_name \notin {Missing, None, <<>>}

process_cases(items) ==
    LET named == SelectSeq(items, HasBusinessName)
    IN [i \in 1..Len(named) |-> CaseRecord(named[i])]

-----------------------------------------------------------------------------
(* pandas: sort_values, groupby(...).transform('last'), merge *)

Max(S) == CHOOSE x \in S : \A y \in S : y <= x

Perms(n) == {f \in [1..n -> 1..n] : \A i, j \in 1..n : f[i] = f[j] => i = j}

\* sort_values('updated_at') with the default kind='quicksort' and
\* na_position='last': ascending by timestamp, the rows without a timestamp
\* at the end in their original order; quicksort is not stable, so rows
\* with equal timestamps come in any order.  order[k] is the index of the
\* row at position k.
SortOrders(times) ==
    {order \in Perms(Len(times)) :
        \A i, j \in 1..Len(times) :
            i < j =>
                LET a == times[order[i]]
                    b == times[order[j]]
                IN IF a = NaT THEN b = NaT /\ order[i] < order[j]
                   ELSE b = NaT \/ a <= b}

\* transform('first') in the place of transform('last'): the first value of
\* the group that is not null.
TransformFirst(keys, nullkey, vals, nul, order) ==
    [i \in 1..Len(keys) |->
        IF nullkey[i] THEN nul
        ELSE LET pos == {k \in 1..Len(keys) :
                            /\ ~nullkey[order[k]]
                            /\ keys[order[k]] = keys[i]
                            /\ vals[order[k]] # nul}
             IN IF pos = {} THEN nul
                ELSE vals[order[CHOOSE k \in pos : \A m \in pos : k <= m]]]

\* groupby(keys)[col].transform('last') on the frame in the given order:
\* for every row the last value of its group that is not null; a row whose
\* key is null belongs to no group (dropna=True) and gets null.
TransformLast(keys, nullkey, vals, nul, order) ==
    [i \in 1..Len(keys) |->
        IF nullkey[i] THEN nul
        ELSE LET pos == {k \in 1..Len(keys) :
                            /\ ~nullkey[order[k]]
                            /\ keys[order[k]] = keys[i]
                            /\ vals[order[k]] # nul}
             IN IF pos = {} THEN nul ELSE vals[order[Max(pos)]]]

Column(df, c) == [i \in 1..Len(df) |-> df[i][c]]

\* df[col] = values
SetColumn(df, c, values) == [i \in 1..Len(df) |-> [df[i] EXCEPT ![c] = values[i]]]

\* drop_duplicates left out: every row stays.
KeepDuplicates(df, keys) == df

\* drop_duplicates(subset=...): the first row of every key stays.
DropDuplicates(df, keys) ==
    LET first(i) == \A j \in 1..(i - 1) : keys[j] # keys[i]
        kept == {i \in 1..Len(df) : first(i)}
        \* the k-th kept index
        nth[k \in 1..Cardinality(kept)] ==
            CHOOSE i \in kept : Cardinality({j \in kept : j <= i}) = k
    IN [k \in 1..Cardinality(kept) |-> df[nth[k]]]

-----------------------------------------------------------------------------
(* main: the person merge, lines 646-658 *)

Now     == 1000   \* datetime.utcnow(), as a day number
TtlDays == 365
one_year_ago_utc == Now - TtlDays

\* pd.concat([persons_df, inquiries_df]): the legacy rows have no inquiry_id
ConcatPersons ==
    [i \in 1..Len(persons_df) |->
        [inquiry_id |-> NaN, name |-> persons_df[i].name, email |-> persons_df[i].email,
         l2_address |-> persons_df[i].l2_address, updated_at |-> persons_df[i].updated_at,
         status |-> persons_df[i].status]]
    \o process_inquiries(inquiries_data)

EmailIsNull(df) == [i \in 1..Len(df) |-> isnull(df[i].email)]

\* Lines 647-649 sort the same updated_at column, so with one order.
PersonsLastByRecency(df, order) ==
    LET keys == Column(df, "email")
        nk   == EmailIsNull(df)
        st   == TransformLast(keys, nk, Column(df, "status"), NaN, order)
        l2   == TransformLast(keys, nk, Column(df, "l2_address"), NaN, order)
        up   == TransformLast(keys, nk, Column(df, "updated_at"), NaT, order)
    IN SetColumn(SetColumn(SetColumn(df, "status", st), "l2_address", l2), "updated_at", up)

\* Line 650 sorts by the updated_at that line 649 has overwritten.
PersonsLastName(df, order) ==
    SetColumn(df, "name",
              TransformLast(Column(df, "email"), EmailIsNull(df), Column(df, "name"), NaN, order))

\* persons_df is None when its fetch failed: pd.concat drops a None, and
\* the frame of no inquiries alone has no column 'updated_at' to sort by.
MergePersons ==
    /\ pc = "merge_persons"
    /\ IF PersonsPath \in csv_failed /\ inquiries_data = <<>>
       THEN /\ pc' = "raised"
            /\ out' = out \o <<Raised("KeyError: 'updated_at'")>>
            /\ UNCHANGED all_persons_df
       ELSE /\ \E df0 \in {ConcatPersons} :
               \E o1 \in SortOrders(Column(df0, "updated_at")) :
               \E df1 \in {PersonsLastByRecency(df0, o1)} :
               \E o2 \in SortOrders(Column(df1, "updated_at")) :
                    all_persons_df' = PersonsLastName(df1, o2)
            /\ pc' = "expire_persons"
            /\ UNCHANGED out
    /\ UNCHANGED <<fetchVars, inputVars, cacheVars, normVars, formVars, all_contributors,
                   all_businesses, option, search_term>>

\* df.loc[(df['status'] == 'cleared') & (df['updated_at'] < one_year_ago_utc), 'status'] = 'expired'
\* (a comparison with NaT is False)
Expire(df) ==
    [i \in 1..Len(df) |->
        IF /\ df[i].status = <<"cleared">>
           /\ df[i].updated_at # NaT
           /\ df[i].updated_at < one_year_ago_utc
        THEN [df[i] EXCEPT !.status = <<"expired">>]
        ELSE df[i]]

\* contributors_df.merge(all_persons_df[[...]], on='email', how='outer'):
\* every pair of rows with the same email (NaN matches NaN), then the rows
\* of either side that no row of the other side matches.
JoinedRow(c, q) ==
    [email        |-> c.email,
     avatar       |-> c.avatar,
     round_id     |-> c.round_id,
     op_amt       |-> c.op_amt,
     l2_address_x |-> c.l2_address,
     name         |-> q.name,
     status       |-> q.status,
     l2_address_y |-> q.l2_address,
     updated_at   |-> q.updated_at]

LeftOnlyRow(c) ==
    JoinedRow(c, [name |-> NaN, status |-> NaN, l2_address |-> NaN, updated_at |-> NaT])

RightOnlyRow(q) ==
    JoinedRow([email |-> q.email, avatar |-> NaN, round_id |-> NaN, op_amt |-> NaN,
               l2_address |-> NaN], q)

OuterJoin(left, right) ==
    LET matches(c) == SelectSeq(right, LAMBDA q : q.email = c.email)
        rowsOf(c)  == IF matches(c) = <<>> THEN <<LeftOnlyRow(c)>>
                      ELSE [k \in 1..Len(matches(c)) |-> JoinedRow(c, matches(c)[k])]
        rightOnly  == SelectSeq(right, LAMBDA q : \A k \in 1..Len(left) : left[k].email # q.email)
    IN Flatten([k \in 1..Len(left) |-> rowsOf(left[k])])
       \o [k \in 1..Len(rightOnly) |-> RightOnlyRow(rightOnly[k])]

\* Lines 653-656: fillna('not started'), l2_address_x before l2_address_y.
FillContributor(r) ==
    [email      |-> r.email,
     avatar     |-> r.avatar,
     round_id   |-> r.round_id,
     op_amt     |-> r.op_amt,
     name       |-> r.name,
     status     |-> IF isnull(r.status) THEN <<"not started">> ELSE r.status,
     l2_address |-> IF notna(r.l2_address_x) THEN r.l2_address_x ELSE r.l2_address_y,
     updated_at |-> r.updated_at]

\* Line 657
KeepContributor(r) == ~(isnull(r.email) /\ isnull(r.avatar))

ContributorKey(r) == <<r.email, r.round_id, r.op_amt>>

\* Lines 651-658: the expiration of all_persons_df, then all_contributors.
\* contributors_df is None when its fetch failed, and None has no merge.
ExpireJoinContributors ==
    /\ pc = "expire_persons"
    /\ IF ContributorsPath \in csv_failed
       THEN /\ all_persons_df' = Expire(all_persons_df)
            /\ pc' = "raised"
            /\ out' = out \o <<Raised("AttributeError: 'NoneType' object has no attribute 'merge'")>>
            /\ UNCHANGED all_contributors
       ELSE /\ \E expired \in {Expire(all_persons_df)} :
               \E joined \in {OuterJoin(contributors_df, expired)} :
               \E kept \in {SelectSeq([i \in 1..Len(joined) |-> FillContributor(joined[i])],
                                      KeepContributor)} :
               \E keys \in {[i \in 1..Len(kept) |-> ContributorKey(kept[i])]} :
                    /\ all_persons_df' = expired
                    /\ all_contributors' = DropDuplicates(kept, keys)
            /\ pc' = "merge_businesses"
            /\ UNCHANGED out
    /\ UNCHANGED <<fetchVars, inputVars, cacheVars, normVars, formVars, all_businesses,
                   option, search_term>>

-----------------------------------------------------------------------------
(* main: the business merge, lines 660-667 *)

ConcatBusinesses ==
    [i \in 1..Len(businesses_df) |->
        [case_id |-> NaN, business_name |-> businesses_df[i].business_name,
         email |-> businesses_df[i].email, l2_address |-> businesses_df[i].l2_address,
         updated_at |-> businesses_df[i].updated_at, status |-> businesses_df[i].status]]
    \o process_cases(cases_data)

BusinessKey(r) == <<r.email, r.business_name>>
BusinessKeyIsNull(r) == isnull(r.email) \/ isnull(r.business_name)

\* Lines 662-664 on the frame sorted by line 661.
BusinessesLast(df) ==
    LET keys == [i \in 1..Len(df) |-> BusinessKey(df[i])]
        nk   == [i \in 1..Len(df) |-> BusinessKeyIsNull(df[i])]
        id   == [i \in 1..Len(df) |-> i]
        st   == TransformLast(keys, nk, Column(df, "status"), NaN, id)
        l2   == TransformLast(keys, nk, Column(df, "l2_address"), NaN, id)
        up   == TransformLast(keys, nk, Column(df, "updated_at"), NaT, id)
    IN SetColumn(SetColumn(SetColumn(df, "status", st), "l2_address", l2), "updated_at", up)

\* businesses_df is None when its fetch failed: pd.concat drops a None, and
\* the frame of no cases alone has no column 'updated_at' to sort by.
MergeBusinesses ==
    /\ pc = "merge_businesses"
    /\ IF BusinessesPath \in csv_failed /\ process_cases(cases_data) = <<>>
       THEN /\ pc' = "raised"
            /\ out' = out \o <<Raised("KeyError: 'updated_at'")>>
            /\ UNCHANGED all_businesses
       ELSE /\ \E df0 \in {ConcatBusinesses} :
               \E o \in SortOrders(Column(df0, "updated_at")) :
               \E sorted \in {[k \in 1..Len(df0) |-> df0[o[k]]]} :
                    all_businesses' = BusinessesLast(sorted)
            /\ pc' = "expire_businesses"
            /\ UNCHANGED out
    /\ UNCHANGED <<fetchVars, inputVars, cacheVars, normVars, formVars, all_persons_df,
                   all_contributors, option, search_term>>

\* Lines 665-667: the expiration, then the rows with an email, one per
\* (email, business_name).
ExpireFilterBusinesses ==
    /\ pc = "expire_businesses"
    /\ \E kept \in {SelectSeq(Expire(all_businesses), LAMBDA r : ~isnull(r.email))} :
       \E keys \in {[i \in 1..Len(kept) |-> BusinessKey(kept[i])]} :
            all_businesses' = DropDuplicates(kept, keys)
    /\ pc' = "dispatch"
    /\ UNCHANGED <<fetchVars, inputVars, cacheVars, normVars, formVars, all_persons_df, all_contributors, lookupVars>>

-----------------------------------------------------------------------------
(* The data of one run *)

Times == {Now - 400, Now - 10}

EmailA == <<"a", "@", "x">>
NameA  == <<"A">>
NameB  == <<"B">>
L2One  == <<"0", "x", "1">>
L2Two  == <<"0", "x", "2">>
Acme   == <<"A", "c", "m", "e">>
Bolt   == <<"B", "o", "l", "t">>

\* name and address of a legacy person: none, or one of two pairs
Profiles == {<<NaN, NaN>>, <<NameA, L2One>>, <<NameB, L2Two>>}

\* A CSV cell is a string or empty (NaN); a row may lack its timestamp.
LegacyPersonRows ==
    {[email |-> e, name |-> p[1], l2_address |-> p[2], status |-> s, updated_at |-> t] :
        e \in {EmailA, NaN}, p \in Profiles,
        s \in {<<"cleared">>, <<"incomplete">>}, t \in Times \cup {NaT}}

IdTokens == <<"id_1", "id_2", "id_3", "id_4", "id_5", "id_6">>

\* A provider item has its updated-at; the email, the name and the address
\* field may be absent.
InquiryItems ==
    {[id |-> Missing, name_first |-> p[1], name_middle |-> Missing,
      name_last |-> Missing, email_address |-> e, l2_value |-> p[2],
      status |-> s, updated_at |-> t] :
        e \in {EmailA, Missing}, p \in {<<Missing, Missing>>, <<NameA, L2One>>},
        s \in {<<"approved">>, <<"pending">>}, t \in Times}

ContributorRows ==
    {[email |-> e, avatar |-> a[1], l2_address |-> a[2], round_id |-> r, op_amt |-> <<"100">>] :
        e \in {EmailA, NaN},
        a \in {<<NaN, NaN>>, <<<<"av">>, NaN>>, <<<<"av">>, <<"0", "x", "c">>>>},
        r \in {<<"r1">>, <<"r2">>}}

LegacyBusinessRows ==
    {[email |-> e, business_name |-> b, l2_address |-> NaN, status |-> s, updated_at |-> t] :
        e \in {EmailA, NaN}, b \in {Acme, Bolt},
        s \in {<<"cleared">>, <<"incomplete">>}, t \in Times \cup {NaT}}

CaseItems ==
    {[id |-> Missing, business_name |-> b, email |-> c[1], l2_value |-> c[2],
      status |-> s, updated_at |-> t] :
        b \in {Acme, Missing},
        c \in {<<Missing, Missing>>, <<EmailA, Missing>>, <<EmailA, L2Two>>},
        s \in {<<"approved">>, <<"pending">>}, t \in Times}

\* The provider numbers its items: the k-th item of a list has the k-th id.
WithIds(items) == [k \in 1..Len(items) |-> [items[k] EXCEPT !.id = <<IdTokens[k]>>]]

ItemSeqs(Items, n) == {WithIds(s) : s \in SeqsUpTo(Items, n)}

\* The two merges share no data: a run's rows are on the person side or on
\* the business side, MaxRows of them in all.
InitInputs ==
    \/ /\ persons_df \in SeqsUpTo(LegacyPersonRows, MaxRows)
       /\ inquiries_data \in ItemSeqs(InquiryItems, MaxRows - Len(persons_df))
       /\ contributors_df \in
            SeqsUpTo(ContributorRows, MaxRows - Len(persons_df) - Len(inquiries_data))
       /\ businesses_df = <<>>
       /\ cases_data = <<>>
    \/ /\ persons_df = <<>>
       /\ inquiries_data = <<>>
       /\ contributors_df = <<>>
       /\ businesses_df \in SeqsUpTo(LegacyBusinessRows, MaxRows)
       /\ cases_data \in ItemSeqs(CaseItems, MaxRows - Len(businesses_df))

FetchIdle ==
    /\ pages = <<>>
    /\ params_after = None
    /\ results = <<>>
    /\ requests_made = 0
    /\ fetch_state = "returned"

InitMerge ==
    /\ FetchIdle
    /\ InitInputs
    /\ NoGrants
    /\ NoMerge
    /\ pc = "merge_persons"
    /\ NoLookup
    /\ NoCache
    /\ NoNormalize
    /\ NoTypeform

NextMerge ==
    \/ MergePersons
    \/ ExpireJoinContributors
    \/ MergeBusinesses
    \/ ExpireFilterBusinesses

SpecMerge == InitMerge /\ [][NextMerge]_vars

-----------------------------------------------------------------------------
(* main: the views, lines 618-643 and 669-714 *)

Written(kind, rows, status) == [kind |-> kind, rows |-> rows, status |-> status]

NoMatchesMessage == Written("No matching results found.", <<>>, <<>>)
\* '*Use the search tool on the left hand side to input ...*'
UseSearchPrompt  == Written("Use the search tool", <<>>, <<>>)
UnboundLocalError == Written("UnboundLocalError: merged_df", <<>>, <<>>)

\* df[col].str.contains(search_term, case=False, na=False) for one cell
CellContains(v, term) == notna(v) /\ contains(lower(v), lower(term))

\* The row mask of search_and_display (lines 637-641).  A column the frame
\* lacks is searched as a column of empty strings.
RowMatches(r, term) ==
    \/ CellContains(IF "name" \in DOMAIN r THEN r.name ELSE <<>>, term)
    \/ CellContains(IF "business_name" \in DOMAIN r THEN r.business_name ELSE <<>>, term)
    \/ CellContains(r.email, term)
    \/ CellContains(r.l2_address, term)

\* df.loc[df['updated_at'].idxmax(), 'status']: the first row with the
\* largest date
MostRecentStatus(df) ==
    LET top == Max({df[i].updated_at : i \in 1..Len(df)})
        i   == CHOOSE j \in 1..Len(df) :
                   /\ df[j].updated_at = top
                   /\ \A m \in 1..(j - 1) : df[m].updated_at # top
    IN df[i].status

display_results(df) ==
    IF df = <<>> THEN <<NoMatchesMessage>>
    ELSE <<Written("table", df, <<>>),
           IF \E i \in 1..Len(df) : df[i].updated_at # NaT
           THEN Written("message", <<>>, MostRecentStatus(df))
           ELSE Written("message", <<>>, <<"not clear">>)>>

\* df['status'] = df['status'].fillna('not started')
FillStatus(df) ==
    [i \in 1..Len(df) |->
        IF isnull(df[i].status) THEN [df[i] EXCEPT !.status = <<"not started">>] ELSE df[i]]

search_and_display(df, term) ==
    display_results(SelectSeq(FillStatus(df), LAMBDA r : RowMatches(r, term)))

SearchTerms == {<<>>, <<"a">>, <<"z">>}

\* Series.astype(str) for one cell: an empty cell becomes the string 'nan'
AsTypeStr(v) == IF isnull(v) THEN <<"n", "a", "n">> ELSE v

\* df['grant_id'] = df['grant_id'].astype(str) (lines 679-680)
GrantIdAsStr(df) ==
    SetColumn(df, "grant_id", [i \in 1..Len(df) |-> AsTypeStr(df[i].grant_id)])

\* Lines 669-671
ViewBusinesses ==
    /\ pc = "dispatch"
    /\ option' \in {"Superchain", "Vendor"}
    /\ search_term' \in SearchTerms
    /\ all_businesses' = FillStatus(all_businesses)
    /\ out' = search_and_display(all_businesses, search_term')
    /\ pc' = "done"
    /\ UNCHANGED <<fetchVars, inputVars, cacheVars, normVars, formVars, all_persons_df, all_contributors>>

\* Lines 672-677
ViewContributionPath ==
    /\ pc = "dispatch"
    /\ option' = "Contribution Path"
    /\ search_term' \in SearchTerms
    /\ IF search_term' # <<>>
       THEN /\ all_contributors' = FillStatus(all_contributors)
            /\ out' = search_and_display(all_contributors, search_term')
       ELSE /\ out' = <<>>
            /\ UNCHANGED all_contributors
    /\ pc' = "done"
    /\ UNCHANGED <<fetchVars, inputVars, cacheVars, normVars, formVars, all_persons_df, all_businesses>>

\* Lines 678-714.  merged_df is assigned at line 728, so it is a local of
\* main that has no value at line 703.
\* merged_all (lines 685-699) is a local built from form_df and
\* projects_df and read at line 702 only, which line 703 never lets happen:
\* what is displayed is the empty pd.DataFrame() of line 709 or nothing.
ViewGrantsRound ==
    /\ pc = "dispatch"
    /\ option' = "Grants Round"
    /\ search_term' \in SearchTerms
    /\ form_df' = GrantIdAsStr(form_df)
    /\ IF ProjectsPath \in csv_failed
       THEN \* projects_df is None at line 680
            /\ out' = <<Raised("TypeError: 'NoneType' object is not subscriptable")>>
            /\ pc' = "raised"
            /\ UNCHANGED projects_df
       ELSE /\ projects_df' = GrantIdAsStr(projects_df)
            /\ out' = IF search_term' # <<>>
                      THEN <<UnboundLocalError>>
                      ELSE <<UseSearchPrompt>> \o display_results(<<>>)
            /\ pc' = "done"
    /\ UNCHANGED <<fetchVars, persons_df, inquiries_data, contributors_df, businesses_df,
                   cases_data, csv_failed, cacheVars, normVars, formVars, mergeVars>>

NextLookup ==
    \/ NextMerge
    \/ ViewBusinesses
    \/ ViewContributionPath
    \/ ViewGrantsRound

SpecLookup == InitMerge /\ [][NextLookup]_vars

-----------------------------------------------------------------------------
(* The Grants Round view over the rows of grants.projects.csv and
   legacy.form.csv *)

EmailB == <<"b", "@", "x">>

\* A project of a round with the email of its contact.
ProjectRows ==
    {[project_name |-> Acme, email |-> e, l2_address |-> NaN,
      round_id |-> <<"r1">>, grant_id |-> g] :
        e \in {EmailA, EmailB}, g \in {<<"g1">>, NaN}}

\* A form submission names its grant and a contact.
FormRows ==
    {[grant_id |-> g, email |-> e, l2_address |-> NaN, updated_at |-> t] :
        e \in {EmailA, EmailB}, g \in {<<"g1">>, NaN}, t \in Times}

\* A run with provider inquiries and the rows of the two Grants Round
\* files, MaxRows of them in all.
InitRollup ==
    /\ FetchIdle
    /\ persons_df = <<>>
    /\ contributors_df = <<>>
    /\ businesses_df = <<>>
    /\ cases_data = <<>>
    /\ csv_failed = {}
    /\ inquiries_data \in ItemSeqs(InquiryItems, MaxRows)
    /\ projects_df \in SeqsUpTo(ProjectRows, MaxRows - Len(inquiries_data))
    /\ form_df \in SeqsUpTo(FormRows, MaxRows - Len(inquiries_data) - Len(projects_df))
    /\ NoMerge
    /\ pc = "merge_persons"
    /\ NoLookup
    /\ NoCache
    /\ NoNormalize
    /\ NoTypeform

SpecRollup == InitRollup /\ [][NextLookup]_vars

-----------------------------------------------------------------------------
(* main with a CSV fetch that failed: fetch_csv wrote st.error and returned
   None (lines 528-530) *)

\* Lines 583-616: the date conversions.  form_df is subscripted without a
\* test for None; persons_df and businesses_df are tested.
ConvertDates ==
    /\ pc = "convert_dates"
    /\ IF FormPath \in csv_failed
       THEN /\ pc' = "raised"
            /\ out' = out \o <<Raised("TypeError: 'NoneType' object is not subscriptable")>>
       ELSE /\ pc' = "merge_persons"
            /\ UNCHANGED out
    /\ UNCHANGED <<fetchVars, inputVars, cacheVars, normVars, formVars, mergeVars,
                   option, search_term>>

\* One of the five files was not fetched: its frame is None and has no
\* rows.
InitFailure ==
    /\ FetchIdle
    /\ InitInputs
    /\ projects_df = <<>>
    /\ form_df = <<>>
    /\ csv_failed \in {{path} : path \in CsvPaths}
    /\ PersonsPath \in csv_failed => persons_df = <<>>
    /\ ContributorsPath \in csv_failed => contributors_df = <<>>
    /\ BusinessesPath \in csv_failed => businesses_df = <<>>
    /\ NoMerge
    /\ pc = "convert_dates"
    /\ NoLookup
    /\ NoCache
    /\ NoNormalize
    /\ NoTypeform

NextFailure == ConvertDates \/ NextLookup

SpecFailure == InitFailure /\ [][NextFailure]_vars

-----------------------------------------------------------------------------
(* main, lines 569-570: process_inquiries and process_cases over a batch of
   raw provider items, well-formed or not *)

MaxBatch == 2   \* items in one batch

\* fields['l-2-address'] (or another entry of fields) is null, not a map
NullField == <<"null">>

NameM   == <<"M">>
\* ' A@X': an address with capitals and a leading blank
EmailUpper == <<" ", "A", "@", "X">>
\* 'ax': no '@'
NoAtSign == <<"a", "x">>

RawInquiryStatuses ==
    {<<"approved">>, <<"expired">>, <<"pending">>, <<"created">>, <<"declined">>,
     <<"needs_review">>, <<"completed">>, <<"failed">>, Missing}

RawCaseStatuses ==
    {<<"approved">>, <<"expired">>, <<"pending">>, <<"created">>, <<"Waiting on UBOs">>,
     <<"declined">>, <<"Ready for Review">>, <<"open">>, Missing}

BaseInquiry ==
    [id |-> <<"id">>, name_first |-> NameA, name_middle |-> Missing, name_last |-> Missing,
     email_address |-> EmailA, l2_value |-> Missing, status |-> <<"approved">>,
     updated_at |-> Now - 10]

\* Raw inquiries that differ from a plain one in the status, in the name
\* parts, in the email, in the address field or by having no id.
RawInquiryItems ==
    {[BaseInquiry EXCEPT !.status = st] : st \in RawInquiryStatuses}
    \cup {[BaseInquiry EXCEPT !.name_first = f, !.name_middle = mi, !.name_last = l] :
            f \in {NameA, <<>>, Missing}, mi \in {NameM, <<>>, Missing},
            l \in {NameB, <<>>, Missing}}
    \cup {[BaseInquiry EXCEPT !.email_address = e] : e \in {EmailUpper, NoAtSign, <<>>, Missing}}
    \cup {[BaseInquiry EXCEPT !.l2_value = v] : v \in {L2One, None, NullField}}
    \cup {[BaseInquiry EXCEPT !.id = Missing]}

BaseCase ==
    [id |-> <<"id">>, business_name |-> Acme, email |-> EmailA, l2_value |-> Missing,
     status |-> <<"approved">>, updated_at |-> Now - 10]

RawCaseItems ==
    {[BaseCase EXCEPT !.status = st] : st \in RawCaseStatuses}
    \cup {[BaseCase EXCEPT !.email = e] : e \in {EmailUpper, NoAtSign, Missing, NullField}}
    \cup {[BaseCase EXCEPT !.business_name = b] : b \in {Missing, NullField}}
    \cup {[BaseCase EXCEPT !.l2_value = v] : v \in {L2Two, None, NullField}}
    \cup {[BaseCase EXCEPT !.id = Missing]}

\* The provider numbers the items that have an id.
RawBatches(Items) ==
    {[k \in 1..Len(b) |-> IF b[k].id = Missing THEN b[k]
                          ELSE [b[k] EXCEPT !.id = <<IdTokens[k]>>]] :
        b \in SeqsUpTo(Items, MaxBatch)}

\* What the loop body of process_inquiries raises for an item, None if
\* nothing: item['id'] (line 47), and .get on a null entry (line 57).
InquiryRaises(item) ==
    IF item.id = Missing THEN <<"KeyError: 'id'">>
    ELSE IF item.l2_value = NullField
         THEN <<"AttributeError: 'NoneType' object has no attribute 'get'">>
    ELSE None

\* The same for process_cases: line 90, then lines 96, 97 and 100.
CaseRaises(item) ==
    IF item.id = Missing THEN <<"KeyError: 'id'">>
    ELSE IF NullField \in {item.business_name, item.email, item.l2_value}
         THEN <<"AttributeError: 'NoneType' object has no attribute 'get'">>
    ELSE None

\* The exception of the first item that raises one.
FirstRaised(exceptions) ==
    LET k == CHOOSE i \in 1..Len(exceptions) :
                 /\ exceptions[i] # None
                 /\ \A j \in 1..(i - 1) : exceptions[j] = None
    IN Raised(exceptions[k][1])

\* Line 569: inquiries_df = process_inquiries(inquiries_data)
ProcessInquiries ==
    /\ pc = "process_inquiries"
    /\ IF \E i \in 1..Len(inquiries_data) : InquiryRaises(inquiries_data[i]) # None
       THEN /\ pc' = "raised"
            /\ out' = out \o <<FirstRaised([i \in 1..Len(inquiries_data) |->
                                                 InquiryRaises(inquiries_data[i])])>>
            /\ UNCHANGED inquiries_df
       ELSE /\ inquiries_df' = process_inquiries(inquiries_data)
            /\ pc' = "process_cases"
            /\ UNCHANGED out
    /\ UNCHANGED <<fetchVars, inputVars, cacheVars, cases_df, formVars, mergeVars,
                   option, search_term>>

\* Line 570: cases_df = process_cases(cases_data)
ProcessCases ==
    /\ pc = "process_cases"
    /\ IF \E i \in 1..Len(cases_data) : CaseRaises(cases_data[i]) # None
       THEN /\ pc' = "raised"
            /\ out' = out \o <<FirstRaised([i \in 1..Len(cases_data) |->
                                                 CaseRaises(cases_data[i])])>>
            /\ UNCHANGED cases_df
       ELSE /\ cases_df' = process_cases(cases_data)
            /\ pc' = "processed"
            /\ UNCHANGED out
    /\ UNCHANGED <<fetchVars, inputVars, cacheVars, inquiries_df, formVars, mergeVars,
                   option, search_term>>

\* A batch of inquiries or a batch of cases.
InitNormalize ==
    /\ FetchIdle
    /\ persons_df = <<>>
    /\ contributors_df = <<>>
    /\ businesses_df = <<>>
    /\ NoGrants
    /\ \/ inquiries_data \in RawBatches(RawInquiryItems) /\ cases_data = <<>>
       \/ inquiries_data = <<>> /\ cases_data \in RawBatches(RawCaseItems)
    /\ NoMerge
    /\ pc = "process_inquiries"
    /\ NoLookup
    /\ NoCache
    /\ NoNormalize
    /\ NoTypeform

NextNormalize == ProcessInquiries \/ ProcessCases

SpecNormalize == InitNormalize /\ [][NextNormalize]_vars

-----------------------------------------------------------------------------
(* typeform_to_dataframe, lines 132-176 *)

KycSlots == 10   \* for i in range(10): kyc_email{i}
KybSlots == 5    \* for i in range(5): kyb_email{i}

MaxItems   == 2   \* submissions in one response
MaxAnswers == 4   \* answers over the submissions of one response

GateFieldId     == "hhURZ3ovgZ9V"
FallbackFieldId == "ECV4jrkAuE1D"

\* The email an answer carries is known by the place of the answer.
EmailTokens ==
    <<"e1", "e2", "e3", "e4", "e5", "e6", "e7", "e8", "e9", "e10", "e11", "e12", "e13",
      "e14", "e15", "e16", "e17", "e18">>

\* An answer; number is answer.get('number', 0).
EmailAnswer == [id |-> "email_field", type |-> "email", email |-> Missing, number |-> 0,
                text |-> Missing]
GateAnswer(n) == [id |-> GateFieldId, type |-> "number", email |-> Missing, number |-> n,
                  text |-> Missing]
FallbackAnswer == [id |-> FallbackFieldId, type |-> "short_text", email |-> Missing,
                   number |-> 0, text |-> L2Two]
AnswerKinds == {EmailAnswer, GateAnswer(1), GateAnswer(0), FallbackAnswer}

\* The answers of one submission, each email answer with its own email.
WithEmails(answers, offset) ==
    [p \in 1..Len(answers) |->
        IF answers[p].type = "email"
        THEN [answers[p] EXCEPT !.email = <<EmailTokens[offset + p]>>]
        ELSE answers[p]]

Submission(k, answers, offset, l2) ==
    [response_id |-> <<IdTokens[k]>>,
     hidden |-> [project_id |-> Missing, grant_id |-> <<"g1">>, l2_address |-> l2],
     answers |-> WithEmails(answers, offset)]

\* n email answers
RECURSIVE Emails(_)
Emails(n) == IF n = 0 THEN <<>> ELSE <<EmailAnswer>> \o Emails(n - 1)

\* Submissions that fill the slots or overflow them by one email.
LongAnswers ==
    {Emails(k) \o <<GateAnswer(1)>> \o Emails(b) :
        k \in {KycSlots, KycSlots + 1}, b \in {KybSlots, KybSlots + 1}}

\* The ways to cut n answers into up to MaxItems submissions: the place of
\* the last answer of each.
Cuts(n) ==
    {c \in SeqsUpTo(0..n, MaxItems) :
        /\ c # <<>> => c[Len(c)] = n
        /\ c = <<>> => n = 0
        /\ \A i \in 1..(Len(c) - 1) : c[i] <= c[i + 1]}

\* The response of the answers cut into submissions.
CutResponse(answers, cut, l2) ==
    [k \in 1..Len(cut) |->
        Submission(k, SubSeq(answers, IF k = 1 THEN 1 ELSE cut[k - 1] + 1, cut[k]),
                   IF k = 1 THEN 0 ELSE cut[k - 1], l2)]

\* The email answers all go to the KYC list.
StepAnswerKycOnly(state, answer) ==
    IF answer.type = "email"
    THEN [state EXCEPT !.kyc_emails = Append(@, answer.email)]
    ELSE state

\* One iteration of the loop over the answers (lines 149-162).
StepAnswer(state, answer) ==
    IF answer.id = FallbackFieldId /\ answer.type = "short_text"
    THEN [state EXCEPT !.l2_address_fallback =
                          IF answer.text = Missing THEN NaN ELSE answer.text]
    ELSE IF answer.type = "email"
         THEN LET email == IF answer.email = Missing THEN None ELSE answer.email
              IN IF state.kyb_started
                 THEN [state EXCEPT !.kyb_emails = Append(@, email)]
                 ELSE [state EXCEPT !.kyc_emails = Append(@, email)]
    ELSE IF answer.id = GateFieldId /\ answer.type = "number" /\ answer.number > 0
         THEN [state EXCEPT !.kyb_started = TRUE]
    ELSE state

RECURSIVE LoopAnswers(_, _)
LoopAnswers(state, answers) ==
    IF answers = <<>> THEN state
    ELSE LoopAnswers(StepAnswer(state, Head(answers)), Tail(answers))

\* entry[f'kyc_email{i}'] = emails[i] if i < len(emails) else np.nan,
\* slot i at place i + 1
Slots(emails, n) == [i \in 1..n |-> IF i <= Len(emails) THEN emails[i] ELSE NaN]

\* The entry of one submission (lines 136-171).
FormEntry(item) ==
    LET state == LoopAnswers([kyc_emails |-> <<>>, kyb_emails |-> <<>>,
                              kyb_started |-> FALSE, l2_address_fallback |-> None],
                             item.answers)
        hidden_l2 == IF item.hidden.l2_address = Missing THEN NaN ELSE item.hidden.l2_address
    IN [form_id    |-> item.response_id,
        project_id |-> IF item.hidden.project_id = Missing THEN NaN ELSE item.hidden.project_id,
        grant_id   |-> IF item.hidden.grant_id = Missing THEN NaN ELSE item.hidden.grant_id,
        l2_address |-> IF isnull(hidden_l2) /\ state.l2_address_fallback \notin {None, <<>>}
                       THEN state.l2_address_fallback ELSE hidden_l2,
        kyc_email  |-> Slots(state.kyc_emails, KycSlots),
        kyb_email  |-> Slots(state.kyb_emails, KybSlots)]

\* One iteration of the loop over the items, line 173 included.
AppendEntry ==
    /\ pc = "typeform"
    /\ Len(form_entries) < Len(response_data)
    /\ form_entries' = Append(form_entries, FormEntry(response_data[Len(form_entries) + 1]))
    /\ UNCHANGED <<fetchVars, inputVars, cacheVars, normVars, response_data, mergeVars, pc,
                   lookupVars>>

\* Lines 175-176
ReturnFrame ==
    /\ pc = "typeform"
    /\ Len(form_entries) = Len(response_data)
    /\ pc' = "typeform_returned"
    /\ UNCHANGED <<fetchVars, inputVars, cacheVars, normVars, formVars, mergeVars,
                   lookupVars>>

\* A response: up to MaxItems submissions with MaxAnswers answers in all,
\* or one long submission.
InitTypeform ==
    /\ FetchIdle
    /\ NoInputs
    /\ NoMerge
    /\ pc = "typeform"
    /\ NoLookup
    /\ NoCache
    /\ NoNormalize
    /\ \E l2 \in {Missing, L2One} :
         \/ \E answers \in SeqsUpTo(AnswerKinds, MaxAnswers) :
            \E cut \in Cuts(Len(answers)) :
                response_data = CutResponse(answers, cut, l2)
         \/ \E answers \in LongAnswers :
                response_data = <<Submission(1, answers, 0, l2)>>
    /\ form_entries = <<>>

NextTypeform == AppendEntry \/ ReturnFrame

SpecTypeform == InitTypeform /\ [][NextTypeform]_vars

-----------------------------------------------------------------------------
(* main, lines 541-564: st.session_state and the st.cache_data of fetch_data
   over the runs of one session *)

TtlSeconds  == 600    \* @st.cache_data(ttl=600)
StepSeconds == 400    \* the time that passes between two runs
MaxClock    == 1600   \* the session ends

\* What fetch_data returns; the items do not matter here.
FetchedItems == <<"items">>

\* st.cache_data holds a call with this base_url that is younger than ttl.
Fresh(cache, u) == u \in DOMAIN cache /\ clock - cache[u] < TtlSeconds

\* fetch_data(api_key, base_url) as decorated: a stored call is returned
\* without running the function; otherwise the function runs, requests the
\* provider, and its return value is stored.  An exception stores nothing.
CachedFetch(cache, calls, u, answer) ==
    IF Fresh(cache, u)
    THEN [raised |-> FALSE, cache |-> cache, calls |-> calls]
    ELSE IF answer = "ok"
         THEN [raised |-> FALSE,
               cache |-> [v \in DOMAIN cache \cup {u} |-> IF v = u THEN clock ELSE cache[v]],
               calls |-> calls \cup {u}]
         ELSE [raised |-> TRUE, cache |-> cache, calls |-> calls \cup {u}]

\* One run of the script through line 564.
RunMain ==
    /\ pc \in {"start", "ran", "raised"}
    /\ \E refresh \in BOOLEAN, answer \in [{"inquiries", "cases"} -> {"ok", "error"}] :
         /\ refresh_button' = refresh
         /\ IF refresh
            THEN LET f1 == CachedFetch(cache_data, {}, InquiriesRefreshUrl, answer["inquiries"])
                     f2 == CachedFetch(f1.cache, f1.calls, CasesRefreshUrl, answer["cases"])
                 IN IF f1.raised
                    THEN /\ cache_data' = f1.cache
                         /\ network_calls' = f1.calls
                         /\ pc' = "raised"
                         /\ UNCHANGED session_state
                    ELSE /\ cache_data' = f2.cache
                         /\ network_calls' = f2.calls
                         /\ IF f2.raised
                            THEN pc' = "raised" /\ UNCHANGED session_state
                            ELSE /\ pc' = "ran"
                                 /\ session_state' = [inquiries_data |-> FetchedItems,
                                                      cases_data |-> FetchedItems]
            ELSE LET f1 == IF session_state.inquiries_data = None
                           THEN CachedFetch(cache_data, {}, InquiriesUrl, answer["inquiries"])
                           ELSE [raised |-> FALSE, cache |-> cache_data, calls |-> {}]
                     s1 == IF session_state.inquiries_data = None /\ ~f1.raised
                           THEN [session_state EXCEPT !.inquiries_data = FetchedItems]
                           ELSE session_state
                     f2 == IF s1.cases_data = None
                           THEN CachedFetch(f1.cache, f1.calls, CasesUrl, answer["cases"])
                           ELSE [raised |-> FALSE, cache |-> f1.cache, calls |-> f1.calls]
                 IN IF f1.raised
                    THEN /\ cache_data' = f1.cache
                         /\ network_calls' = f1.calls
                         /\ pc' = "raised"
                         /\ UNCHANGED session_state
                    ELSE /\ cache_data' = f2.cache
                         /\ network_calls' = f2.calls
                         /\ IF f2.raised
                            THEN pc' = "raised" /\ session_state' = s1
                            ELSE /\ pc' = "ran"
                                 /\ session_state' =
                                        IF s1.cases_data = None
                                        THEN [s1 EXCEPT !.cases_data = FetchedItems]
                                        ELSE s1
    /\ UNCHANGED <<fetchVars, inputVars, mergeVars, lookupVars, clock, normVars, formVars>>

\* Time passes before the user's next interaction.
Tick ==
    /\ pc \in {"start", "ran", "raised"}
    /\ clock + StepSeconds <= MaxClock
    /\ clock' = clock + StepSeconds
    /\ UNCHANGED <<fetchVars, inputVars, mergeVars, pc, lookupVars, session_state,
                   cache_data, refresh_button, network_calls, normVars, formVars>>

InitCache ==
    /\ FetchIdle
    /\ NoInputs
    /\ NoMerge
    /\ pc = "start"
    /\ NoLookup
    /\ NoCache
    /\ NoNormalize
    /\ NoTypeform

NextCache == RunMain \/ Tick

SpecCache == InitCache /\ [][NextCache]_vars

-----------------------------------------------------------------------------
(* Claims about fetch_data (checked under SpecFetch) *)

FailedRequest(i) == pages[i].kind # "ok"

\* C1: when a page request fails by transport error or returns a
\* non-success status, the fetch does not return: a fetch that returned
\* made no failed request.
ClaimC1_FailureAborts ==
    fetch_state = "returned" => \A i \in 1..requests_made : ~FailedRequest(i)

\* The data arrays of the whole chain, in page order.
ServerItems == Flatten([i \in 1..Len(pages) |-> pages[i].data])

\* C2: for a chain of successful pages the fetch returns exactly the
\* concatenation of the pages' data arrays, each item as often as the
\* server returned it.
ClaimC2_ExactConcatenation ==
    (/\ fetch_state = "returned"
     /\ \A i \in 1..Len(pages) : ~FailedRequest(i))
    => results = ServerItems

-----------------------------------------------------------------------------
(* Claims about the merge (checked under SpecMerge) *)

\* The records that contribute to a key: the normalized rows of the two
\* person sources with that email, of the two business sources with that
\* (email, business_name).
PersonGroup(email) ==
    {j \in 1..Len(ConcatPersons) : ConcatPersons[j].email = email}

BusinessGroup(key) ==
    {j \in 1..Len(ConcatBusinesses) : BusinessKey(ConcatBusinesses[j]) = key}

\* An absent timestamp ranks below every timestamp (NaT is -1).
MaxTime(recs, group) ==
    IF group = {} THEN NaT ELSE Max({recs[j].updated_at : j \in group})

HasValue(v) == v \notin {NaN, <<>>}

PersonsMerged    == pc = "expire_persons"
ContributorsDone == pc \in {"merge_businesses", "expire_businesses", "dispatch"}
BusinessesMerged == pc = "expire_businesses"
BusinessesDone   == pc = "dispatch"

\* A row of all_contributors that carries the data of person records.
CarriesRecord(r) == r.status # <<"not started">>

\* C3: no row of the merged output is built from a record that has neither
\* an email nor a chain address; a row under an empty or null email is
\* built from no such record.
ClaimC3_NoUnkeyedIdentity ==
    /\ ContributorsDone =>
         \A k \in 1..Len(all_contributors) :
            LET r == all_contributors[k] IN
            (CarriesRecord(r) /\ ~HasValue(r.email)) =>
                \A j \in PersonGroup(r.email) : HasValue(ConcatPersons[j].l2_address)
    /\ BusinessesDone =>
         \A k \in 1..Len(all_businesses) :
            LET r == all_businesses[k] IN
            ~HasValue(r.email) =>
                \A j \in BusinessGroup(BusinessKey(r)) :
                    HasValue(ConcatBusinesses[j].l2_address)

\* The canonical status under a display label: '(green) cleared' is cleared.
Canonical(status) ==
    IF Len(status) = 3 /\ status[2] = " " THEN <<status[3]>> ELSE status

\* The records of a group with the maximum updated_at.
Latest(recs, group) ==
    {j \in group : recs[j].updated_at = MaxTime(recs, group)}

\* C4: the merged status of a key is the status of a contributing record
\* with the maximum updated_at, an absent timestamp ranking lowest.
ClaimC4_LastWriteWins ==
    /\ PersonsMerged =>
         \A i \in 1..Len(all_persons_df) :
            LET r == all_persons_df[i] IN
            HasValue(r.email) =>
                Canonical(r.status) \in
                    {Canonical(ConcatPersons[j].status) :
                        j \in Latest(ConcatPersons, PersonGroup(r.email))}
    /\ BusinessesMerged =>
         \A i \in 1..Len(all_businesses) :
            LET r == all_businesses[i] IN
            (HasValue(r.email) /\ HasValue(r.business_name)) =>
                Canonical(r.status) \in
                    {Canonical(ConcatBusinesses[j].status) :
                        j \in Latest(ConcatBusinesses, BusinessGroup(BusinessKey(r)))}

\* C5: last_updated of every merged key is the maximum updated_at of the
\* records that contributed to the key, in the person merge (after lines
\* 646-650 and in all_contributors) and in the business merge (after lines
\* 660-664 and in the final all_businesses).
ClaimC5_LastUpdatedIsMax ==
    /\ PersonsMerged =>
         \A i \in 1..Len(all_persons_df) :
            LET r == all_persons_df[i] IN
            notna(r.email) => r.updated_at = MaxTime(ConcatPersons, PersonGroup(r.email))
    /\ ContributorsDone =>
         \A k \in 1..Len(all_contributors) :
            LET r == all_contributors[k] IN
            notna(r.email) => r.updated_at = MaxTime(ConcatPersons, PersonGroup(r.email))
    /\ (BusinessesMerged \/ BusinessesDone) =>
         \A k \in 1..Len(all_businesses) :
            LET r == all_businesses[k] IN
            ~BusinessKeyIsNull(r) =>
                r.updated_at = MaxTime(ConcatBusinesses, BusinessGroup(BusinessKey(r)))

\* C5 witness: an email whose older record comes after its newer record in
\* source order, merged into a row of all_contributors with the newer date.
WitnessC5_TwoTimestamps ==
    /\ ContributorsDone
    /\ \E k \in 1..Len(all_contributors) :
         LET g == PersonGroup(all_contributors[k].email) IN
         /\ HasValue(all_contributors[k].email)
         /\ \E a, b \in g : /\ ConcatPersons[a].updated_at # NaT
                            /\ ConcatPersons[b].updated_at # NaT
                            /\ ConcatPersons[a].updated_at < ConcatPersons[b].updated_at
                            /\ a > b
         /\ all_contributors[k].updated_at = Now - 10

\* The most recent records of a group among those with a value in a column.
MostRecentWith(recs, group, c) ==
    {j \in group :
        /\ HasValue(recs[j][c])
        /\ \A m \in group : HasValue(recs[m][c]) => recs[m].updated_at <= recs[j].updated_at}

\* The value a recency-ordered first-non-null merge allows for a column.
RecencyValueOk(recs, group, c, v) ==
    IF MostRecentWith(recs, group, c) = {} THEN ~HasValue(v)
    ELSE v \in {recs[j][c] : j \in MostRecentWith(recs, group, c)}

\* C6: name and chain address of a merged key are those of the most recent
\* contributing record that has one.
ClaimC6_ScalarsByRecency ==
    /\ PersonsMerged =>
         \A i \in 1..Len(all_persons_df) :
            LET r == all_persons_df[i] IN
            HasValue(r.email) =>
                /\ RecencyValueOk(ConcatPersons, PersonGroup(r.email), "name", r.name)
                /\ RecencyValueOk(ConcatPersons, PersonGroup(r.email), "l2_address",
                                  r.l2_address)
    /\ BusinessesMerged =>
         \A i \in 1..Len(all_businesses) :
            LET r == all_businesses[i] IN
            (HasValue(r.email) /\ HasValue(r.business_name)) =>
                RecencyValueOk(ConcatBusinesses, BusinessGroup(BusinessKey(r)),
                               "l2_address", r.l2_address)

\* cleared and older than now - 365 days
Stale(r) ==
    /\ Canonical(r.status) = <<"cleared">>
    /\ r.updated_at # NaT
    /\ r.updated_at < Now - TtlDays

\* C7: the expiration pass turns exactly the rows that are cleared (from
\* whichever source) and older than now - 365 days into expired, and leaves
\* every other status as it was.
ClaimC7_ExpiresExactlyStaleCleared ==
    [][/\ ExpireJoinContributors =>
            \A i \in 1..Len(all_persons_df) :
                all_persons_df'[i].status =
                    IF Stale(all_persons_df[i]) THEN <<"expired">>
                    ELSE all_persons_df[i].status
       /\ ExpireFilterBusinesses =>
            \A k \in 1..Len(all_businesses') :
                \E i \in 1..Len(all_businesses) :
                    /\ BusinessKey(all_businesses[i]) = BusinessKey(all_businesses'[k])
                    /\ all_businesses'[k].status =
                        IF Stale(all_businesses[i]) THEN <<"expired">>
                        ELSE all_businesses[i].status]_vars

\* The last record in source order among the latest of a group.
LastLatest(recs, group) == Max(Latest(recs, group))

RowsWith(df, key(_), k) == {i \in 1..Len(df) : key(df[i]) = k}
EmailOf(r) == r.email

\* C9: one row per email in the person output, one row per
\* (email, business name) in the business output.
ClaimC9_OneIdentityPerKey ==
    /\ ContributorsDone =>
         /\ \A k \in 1..Len(all_contributors) :
                HasValue(all_contributors[k].email) =>
                    RowsWith(all_contributors, EmailOf, all_contributors[k].email) = {k}
         /\ \A j \in 1..Len(ConcatPersons) :
                HasValue(ConcatPersons[j].email) =>
                    RowsWith(all_contributors, EmailOf, ConcatPersons[j].email) # {}
    /\ BusinessesDone =>
         \A j \in 1..Len(ConcatBusinesses) :
            HasValue(ConcatBusinesses[j].email) =>
                Cardinality(RowsWith(all_businesses, BusinessKey,
                                     BusinessKey(ConcatBusinesses[j]))) = 1

\* C9 as amended: the person output has one row per (email, round_id,
\* op_amt) and at least one for every email of a record or a contributor
\* that is not dropped by line 657; the business output has exactly one row
\* per (email, business name) with an email.
ClaimC9_OneRowPerOutputKey ==
    /\ ContributorsDone =>
         /\ \A k \in 1..Len(all_contributors) :
                RowsWith(all_contributors, ContributorKey,
                         ContributorKey(all_contributors[k])) = {k}
         /\ \A j \in 1..Len(ConcatPersons) :
                notna(ConcatPersons[j].email) =>
                    RowsWith(all_contributors, EmailOf, ConcatPersons[j].email) # {}
         /\ \A j \in 1..Len(contributors_df) :
                KeepContributor(contributors_df[j]) =>
                    RowsWith(all_contributors, ContributorKey,
                             ContributorKey(contributors_df[j])) # {}
         /\ \A j \in 1..Len(ConcatPersons) :
                (/\ notna(ConcatPersons[j].email)
                 /\ \A c \in 1..Len(contributors_df) :
                        contributors_df[c].email # ConcatPersons[j].email) =>
                    Cardinality(RowsWith(all_contributors, EmailOf,
                                         ConcatPersons[j].email)) = 1
    /\ BusinessesDone =>
         /\ \A k \in 1..Len(all_businesses) :
                RowsWith(all_businesses, BusinessKey, BusinessKey(all_businesses[k])) = {k}
         /\ \A j \in 1..Len(ConcatBusinesses) :
                notna(ConcatBusinesses[j].email) =>
                    Cardinality(RowsWith(all_businesses, BusinessKey,
                                         BusinessKey(ConcatBusinesses[j]))) = 1

\* C9 witness: two businesses that share the contact email are two rows,
\* and one of them merged two records.
WitnessC9_SharedEmail ==
    /\ BusinessesDone
    /\ Len(ConcatBusinesses) >= 2
    /\ \E a, b \in 1..Len(all_businesses) :
         /\ all_businesses[a].email = EmailA
         /\ all_businesses[b].email = EmailA
         /\ all_businesses[a].business_name # all_businesses[b].business_name

-----------------------------------------------------------------------------
(* Claims about the views (checked under SpecLookup) *)

Wrote(w) == \E i \in 1..Len(out) : out[i] = w
WroteTable == \E i \in 1..Len(out) : out[i].kind = "table"

\* The frame a view searches.
ViewFrame ==
    IF option \in {"Superchain", "Vendor"} THEN all_businesses
    ELSE IF option = "Contribution Path" THEN all_contributors
    ELSE <<>>

\* C10: in every view an empty search term gives the 'no query supplied'
\* result and neither matches nor 'no matches'; a term that matches nothing
\* gives 'no matches' and not 'no query supplied'.
ClaimC10_EmptyTermIsNoQuery ==
    pc = "done" =>
        /\ search_term = <<>> =>
              /\ Wrote(UseSearchPrompt)
              /\ ~WroteTable
              /\ ~Wrote(NoMatchesMessage)
        /\ (/\ search_term # <<>>
            /\ \A i \in 1..Len(ViewFrame) : ~RowMatches(ViewFrame[i], search_term)) =>
              /\ Wrote(NoMatchesMessage)
              /\ ~Wrote(UseSearchPrompt)

-----------------------------------------------------------------------------
(* Claims about the Grants Round view (checked under SpecRollup) *)

\* The contacts registered for a round: the emails of its project rows and
\* of the form submissions for the grants of those rows.
RoundContacts(round) ==
    LET projects == {i \in 1..Len(projects_df) : projects_df[i].round_id = round}
        grants   == {projects_df[i].grant_id : i \in projects}
    IN {projects_df[i].email : i \in projects}
       \cup {form_df[j].email : j \in {k \in 1..Len(form_df) : form_df[k].grant_id \in grants}}

\* The status of a contact's Identity, not started when there is none.
ContactStatus(email) ==
    IF \E k \in 1..Len(all_contributors) : all_contributors[k].email = email
    THEN LET k == CHOOSE m \in 1..Len(all_contributors) : all_contributors[m].email = email
         IN IF isnull(all_contributors[k].status) THEN <<"not started">>
            ELSE Canonical(all_contributors[k].status)
    ELSE <<"not started">>

ProjectRollup(round) ==
    LET statuses == {ContactStatus(e) : e \in RoundContacts(round)}
    IN IF <<"rejected">> \in statuses THEN <<"rejected">>
       ELSE IF statuses \subseteq {<<"cleared">>} THEN <<"cleared">>
       ELSE <<"incomplete">>

\* The term of the Grants Round view finds a project row of the round.
TermFindsRound(round) ==
    \E i \in 1..Len(projects_df) :
        /\ projects_df[i].round_id = round
        /\ \/ CellContains(projects_df[i].project_name, search_term)
           \/ CellContains(projects_df[i].email, search_term)
           \/ CellContains(projects_df[i].l2_address, search_term)

\* C11: the Grants Round view, asked for a round, reports the rollup of the
\* round: rejected iff a contact's Identity is rejected, cleared iff every
\* contact's Identity is cleared, incomplete otherwise, a contact without
\* Identity counting as not started.
ClaimC11_RollupByContacts ==
    (pc = "done" /\ option = "Grants Round" /\ search_term # <<>>) =>
        \A i \in 1..Len(projects_df) :
            TermFindsRound(projects_df[i].round_id) =>
                Wrote(Written("message", <<>>, ProjectRollup(projects_df[i].round_id)))

-----------------------------------------------------------------------------
(* Claims about the cache (checked under SpecCache) *)

\* The run requested the provider for the source.
Requested(calls, source) ==
    IF source = "inquiries" THEN calls \cap {InquiriesUrl, InquiriesRefreshUrl} # {}
    ELSE calls \cap {CasesUrl, CasesRefreshUrl} # {}

Held(state, source) ==
    IF source = "inquiries" THEN state.inquiries_data # None ELSE state.cases_data # None

\* C12: in every run that completes, a source is requested from the
\* provider iff the run was a refresh or st.session_state held no data of
\* the source when the run began.
ClaimC12_FetchIffRefreshOrEmpty ==
    [][(clock' = clock /\ pc' = "ran") =>
          \A source \in {"inquiries", "cases"} :
              Requested(network_calls', source)
                  <=> (refresh_button' \/ ~Held(session_state, source))]_vars

-----------------------------------------------------------------------------
(* Claims about failed fetches (checked under SpecFailure) *)

\* The files a view's result is computed from.
RequiredPaths(view) ==
    IF view \in {"Superchain", "Vendor"} THEN {BusinessesPath}
    ELSE IF view = "Contribution Path" THEN {ContributorsPath, PersonsPath}
    ELSE {FormPath, ProjectsPath}

\* C13: when the fetch of a file a view requires failed, the view displays
\* no Identity rows: nothing computed from the other sources alone is shown.
ClaimC13_NoMergeAfterFailedFetch ==
    (pc \in {"done", "raised"} /\ RequiredPaths(option) \cap csv_failed # {}) => ~WroteTable

-----------------------------------------------------------------------------
(* Claims about the normalizers (checked under SpecNormalize) *)

InquiriesProcessed == pc \in {"process_cases", "processed"}
CasesProcessed == pc = "processed"

\* The raw cases that process_cases makes rows of, in order.
NamedCases == SelectSeq(cases_data, HasBusinessName)

CanonicalStatuses ==
    {<<"not started">>, <<"incomplete">>, <<"in review">>, <<"cleared">>, <<"rejected">>,
     <<"expired">>}

UnknownStatus == <<"unknown">>

\* The status a display string stands for: the word after the symbol,
\* 'retry' being a label of incomplete.
StatusOfLabel(status) ==
    IF Canonical(status) = <<"retry">> THEN <<"incomplete">> ELSE Canonical(status)

\* The provider statuses each normalizer has a mapping for.
MappedInquiryStatuses ==
    {<<"approved">>, <<"expired">>, <<"pending">>, <<"created">>, <<"declined">>,
     <<"needs_review">>}
MappedCaseStatuses ==
    {<<"approved">>, <<"expired">>, <<"pending">>, <<"created">>, <<"Waiting on UBOs">>,
     <<"declined">>, <<"Ready for Review">>}

StatusIsClosed(raw, mapped, status) ==
    /\ StatusOfLabel(status) \in CanonicalStatuses \cup {UnknownStatus}
    /\ raw \notin mapped => status = UnknownStatus

\* C14: the status of every normalized record is in the closed set of
\* canonical statuses or is the unknown bucket, and it is the unknown bucket
\* when the raw status is absent or outside the mapping table.
ClaimC14_ClosedStatusSet ==
    /\ InquiriesProcessed =>
         \A i \in 1..Len(inquiries_df) :
            StatusIsClosed(inquiries_data[i].status, MappedInquiryStatuses,
                           inquiries_df[i].status)
    /\ CasesProcessed =>
         \A i \in 1..Len(cases_df) :
            StatusIsClosed(NamedCases[i].status, MappedCaseStatuses, cases_df[i].status)

\* C15: a malformed item never aborts the batch: the normalizers return
\* and every item of the batch of inquiries has its record.
ClaimC15_MalformedItemKeepsBatch ==
    /\ pc # "raised"
    /\ InquiriesProcessed => Len(inquiries_df) = Len(inquiries_data)
    /\ CasesProcessed => Len(cases_df) = Len(NamedCases)

\* The email of a record: the raw string lowercased and trimmed when it
\* contains '@', empty otherwise.
ExpectedEmail(raw) ==
    LET email == IF raw \in {Missing, None} THEN <<>> ELSE strip(lower(raw))
    IN IF contains(email, <<"@">>) THEN email ELSE <<>>

\* C16: in both normalizers a raw email without '@' gives a record with an
\* empty email, and an email with '@' is kept lowercased and trimmed.
ClaimC16_EmailNeedsAtSign ==
    /\ InquiriesProcessed =>
         \A i \in 1..Len(inquiries_df) :
            inquiries_df[i].email = ExpectedEmail(inquiries_data[i].email_address)
    /\ CasesProcessed =>
         \A i \in 1..Len(cases_df) :
            cases_df[i].email = ExpectedEmail(NamedCases[i].email)

\* The parts joined by one space each.
RECURSIVE JoinBySpace(_)
JoinBySpace(parts) ==
    IF parts = <<>> THEN <<>>
    ELSE IF Len(parts) = 1 THEN parts[1]
    ELSE parts[1] \o <<" ">> \o JoinBySpace(Tail(parts))

ExpectedName(item) ==
    JoinBySpace(SelectSeq(<<GetOrEmpty(item.name_first), GetOrEmpty(item.name_middle),
                            GetOrEmpty(item.name_last)>>,
                          LAMBDA part : part # <<>>))

\* C17: the name of a record is its non-empty name parts in order, joined
\* by exactly one space.
ClaimC17_NameJoinedBySingleSpaces ==
    InquiriesProcessed =>
        \A i \in 1..Len(inquiries_df) : inquiries_df[i].name = ExpectedName(inquiries_data[i])

-----------------------------------------------------------------------------
(* Claims about typeform_to_dataframe (checked under SpecTypeform) *)

\* The gate: the number field hhURZ3ovgZ9V with a value above 0.
IsGate(answer) == answer.id = GateFieldId /\ answer.type = "number" /\ answer.number > 0

\* The places of the email answers after a gate (kyb) or before any.
EmailPlaces(answers, kyb) ==
    {p \in 1..Len(answers) :
        /\ answers[p].type = "email"
        /\ kyb <=> \E q \in 1..(p - 1) : IsGate(answers[q])}

\* The n-th place of a set of places, in answer order.
NthPlace(places, n) == CHOOSE p \in places : Cardinality({q \in places : q <= p}) = n

\* What slot i holds: the email of the (i+1)-th such answer, null if none.
ExpectedSlot(answers, kyb, i) ==
    IF i < Cardinality(EmailPlaces(answers, kyb))
    THEN answers[NthPlace(EmailPlaces(answers, kyb), i + 1)].email
    ELSE NaN

\* C18: in every entry the KYB slots 0..4 hold, in answer order, the emails
\* of the email answers that follow a gate answer of the same submission,
\* the KYC slots 0..9 those of the other email answers; further emails are
\* dropped and unused slots are null.
ClaimC18_GateSplitsEmails ==
    \A k \in 1..Len(form_entries) :
        /\ DOMAIN form_entries[k].kyc_email = 1..KycSlots
        /\ DOMAIN form_entries[k].kyb_email = 1..KybSlots
        /\ \A i \in 0..(KycSlots - 1) :
              form_entries[k].kyc_email[i + 1] = ExpectedSlot(response_data[k].answers, FALSE, i)
        /\ \A i \in 0..(KybSlots - 1) :
              form_entries[k].kyb_email[i + 1] = ExpectedSlot(response_data[k].answers, TRUE, i)

\* C18 witness: a submission with an email after its gate, stored as KYB,
\* followed by a submission without gate whose email is stored as KYC.
WitnessC18_GateNotCarried ==
    /\ pc = "typeform_returned"
    /\ Len(form_entries) = 2
    /\ \E q \in 1..Len(response_data[1].answers) : IsGate(response_data[1].answers[q])
    /\ notna(form_entries[1].kyb_email[1])
    /\ \A q \in 1..Len(response_data[2].answers) : ~IsGate(response_data[2].answers[q])
    /\ notna(form_entries[2].kyc_email[1])
    /\ isnull(form_entries[2].kyb_email[1])

====
